---- MODULE Spec2Model ----
\* Pod admission webhook of LeaderWorkerSet (pkg/webhooks/pod_webhook.go):
\* the mutating endpoint Default and the validating endpoints, applied to one
\* pod object that may be delivered to the webhook more than once.
EXTENDS Integers, Sequences, FiniteSets, TLC

VARIABLES pod, before, submitted, err, calls, verdict

vars == <<pod, before, submitted, err, calls, verdict>>

\* ---------------------------------------------------------------- bounds
MaxNameLen == 4
MaxTerms == 1
MaxCalls == 2

\* ------------------------------------------------------- strings and maps
\* A string is a sequence of one-character strings; "" is << >>.
Digits == <<"0", "1", "2", "3", "4", "5", "6", "7", "8", "9">>

IsDigit(c) == \E i \in 1..10 : Digits[i] = c

DigitValue(c) == (CHOOSE i \in 1..10 : Digits[i] = c) - 1

RECURSIVE ParseDigits(_)
\* decimal value of a non-empty all-digit string
ParseDigits(s) ==
    IF Len(s) = 0 THEN 0
    ELSE ParseDigits(SubSeq(s, 1, Len(s) - 1)) * 10 + DigitValue(s[Len(s)])

AllDigits(s) == Len(s) > 0 /\ \A i \in 1..Len(s) : IsDigit(s[i])

RECURSIVE Sprint(_)
\* fmt.Sprint of a non-negative int
Sprint(n) ==
    IF n < 10 THEN <<Digits[n + 1]>>
    ELSE Sprint(n \div 10) \o <<Digits[(n % 10) + 1]>>

\* strconv.Atoi on an annotation value: [ok, n]
Atoi(s) == IF AllDigits(s) THEN [ok |-> TRUE, n |-> ParseDigits(s)]
           ELSE [ok |-> FALSE, n |-> 0]

Has(m, k) == k \in DOMAIN m

\* Go map read: the zero value "" when the key is absent
Get(m, k) == IF k \in DOMAIN m THEN m[k] ELSE << >>

Put(m, k, v) == [x \in (DOMAIN m) \cup {k} |-> IF x = k THEN v ELSE m[x]]

\* --------------------------------------------------------- label keys
SetNameLabelKey == "leaderworkerset.sigs.k8s.io/name"
GroupIndexLabelKey == "leaderworkerset.sigs.k8s.io/group-index"
WorkerIndexLabelKey == "leaderworkerset.sigs.k8s.io/worker-index"
GroupUniqueHashLabelKey == "leaderworkerset.sigs.k8s.io/group-key"
ExclusiveKeyAnnotationKey == "leaderworkerset.sigs.k8s.io/exclusive-topology"
SizeAnnotationKey == "leaderworkerset.sigs.k8s.io/size"

\* a nil pointer (Affinity, PodAffinity, PodAntiAffinity)
Nil == [nil |-> TRUE]

\* ------------------------------------------------ collaborators of Default
\* statefulsetutils.GetParentNameAndOrdinal: the ordinal of <prefix>-<digits>,
\* -1 when the name has no such suffix.
LastDash(name) ==
    IF \E i \in 1..Len(name) : name[i] = "-"
    THEN CHOOSE i \in 1..Len(name) :
            name[i] = "-" /\ \A j \in (i + 1)..Len(name) : name[j] # "-"
    ELSE 0

GetOrdinal(name) ==
    LET i == LastDash(name)
        suffix == SubSeq(name, i + 1, Len(name))
    IN IF i = 0 \/ ~AllDigits(suffix) THEN -1 ELSE ParseDigits(suffix)

\* podutils.LeaderPod: the structural check on the pod's role
LeaderPod(p) == p.role = "leader"

\* acceleratorutils.PodRequestsTPUs
PodRequestsTPUs(p) == p.requestsTPU

\* acceleratorutils.AddTPUVariables: the group size goes into the environment
\* of the containers that request the accelerator
AddTPUVariables(p, podCount) ==
    [p EXCEPT !.env = p.env \cup {<<"TPU_GROUP_SIZE", podCount>>}]

\* utils.Sha1Hash of "ns/name": a value determined by the formatted string
Sha1Hash(s) == <<"sha1">> \o s

\* variant: the namespace is left out of the hashed string
genGroupUniqueKey_NameOnly(ns, podName) == Sha1Hash(<<"/">> \o podName)

genGroupUniqueKey(ns, podName) == Sha1Hash(ns \o <<"/">> \o podName)

\* ------------------------------------------------------ exclusive placement
Requirement(k, op, vals) == [Key |-> k, Operator |-> op, Values |-> vals]

AffinityTerm(topologyKey, groupUniqueKey) ==
    [LabelSelector |-> <<Requirement(GroupUniqueHashLabelKey, "In", {groupUniqueKey})>>,
     TopologyKey |-> topologyKey]

AntiAffinityTerm(topologyKey, groupUniqueKey) ==
    [LabelSelector |-> <<Requirement(GroupUniqueHashLabelKey, "Exists", {}),
                         Requirement(GroupUniqueHashLabelKey, "NotIn", {groupUniqueKey})>>,
     TopologyKey |-> topologyKey]

\* the required terms of a *PodAffinity / *PodAntiAffinity, nil-safe for reads
Required(a) == IF a = Nil THEN << >> ELSE a.Required

\* variant: the second append goes to the affinity list again
SetExclusiveAffinities_SameList(p, groupUniqueKey) ==
    LET aff == IF p.affinity = Nil
               THEN [PodAffinity |-> Nil, PodAntiAffinity |-> Nil]
               ELSE p.affinity
        topo == Get(p.annotations, ExclusiveKeyAnnotationKey)
    IN [p EXCEPT !.affinity =
          [PodAffinity |->
              [Required |-> Append(Append(Required(aff.PodAffinity),
                                          AffinityTerm(topo, groupUniqueKey)),
                                   AntiAffinityTerm(topo, groupUniqueKey))],
           PodAntiAffinity |->
              [Required |-> Required(aff.PodAntiAffinity)]]]

\* variant: the anti-affinity selector without its Exists requirement
SetExclusiveAffinities_NoExists(p, groupUniqueKey) ==
    LET aff == IF p.affinity = Nil
               THEN [PodAffinity |-> Nil, PodAntiAffinity |-> Nil]
               ELSE p.affinity
        topo == Get(p.annotations, ExclusiveKeyAnnotationKey)
    IN [p EXCEPT !.affinity =
          [PodAffinity |->
              [Required |-> Append(Required(aff.PodAffinity),
                                   AffinityTerm(topo, groupUniqueKey))],
           PodAntiAffinity |->
              [Required |-> Append(Required(aff.PodAntiAffinity),
                 [LabelSelector |->
                    <<Requirement(GroupUniqueHashLabelKey, "NotIn", {groupUniqueKey})>>,
                  TopologyKey |-> topo])]]]

SetExclusiveAffinities(p, groupUniqueKey) ==
    LET aff == IF p.affinity = Nil
               THEN [PodAffinity |-> Nil, PodAntiAffinity |-> Nil]
               ELSE p.affinity
        topo == Get(p.annotations, ExclusiveKeyAnnotationKey)
    IN [p EXCEPT !.affinity =
          [PodAffinity |->
              [Required |-> Append(Required(aff.PodAffinity),
                                   AffinityTerm(topo, groupUniqueKey))],
           PodAntiAffinity |->
              [Required |-> Append(Required(aff.PodAntiAffinity),
                                   AntiAffinityTerm(topo, groupUniqueKey))]]]

HasTermFor(terms, topologyKey) ==
    \E i \in 1..Len(terms) : terms[i].TopologyKey = topologyKey

\* variant: the terms are compared with the label key, not the annotation value
exclusiveAffinityApplied_WrongKey(p) ==
    IF p.affinity = Nil THEN FALSE
    ELSE IF p.affinity.PodAffinity = Nil \/ p.affinity.PodAntiAffinity = Nil THEN FALSE
    ELSE LET topo == Get(p.annotations, GroupUniqueHashLabelKey)
         IN HasTermFor(p.affinity.PodAffinity.Required, topo)
            /\ HasTermFor(p.affinity.PodAntiAffinity.Required, topo)

exclusiveAffinityApplied(p) ==
    IF p.affinity = Nil THEN FALSE
    ELSE IF p.affinity.PodAffinity = Nil \/ p.affinity.PodAntiAffinity = Nil THEN FALSE
    ELSE LET topo == Get(p.annotations, ExclusiveKeyAnnotationKey)
         IN HasTermFor(p.affinity.PodAffinity.Required, topo)
            /\ HasTermFor(p.affinity.PodAntiAffinity.Required, topo)

\* ------------------------------------------------------------ Default
NoError == "nil"
ErrOrdinal == "parsing pod ordinal"
ErrSizeMissing == "size annotation is unexpectedly missing"
ErrAtoi == "strconv.Atoi"

Result(p, e) == [pod |-> p, err |-> e]

\* variant: an unparsable name is let through without a label
AssignGroupIndex_NoCheck(p) ==
    IF Has(p.labels, GroupIndexLabelKey) THEN Result(p, NoError)
    ELSE LET groupIndex == GetOrdinal(p.name)
         IN IF groupIndex = -1 THEN Result(p, NoError)
            ELSE Result([p EXCEPT !.labels =
                           Put(p.labels, GroupIndexLabelKey, Sprint(groupIndex))],
                        NoError)

\* lines 98-106: the group index label of a leader
AssignGroupIndex(p) ==
    IF Has(p.labels, GroupIndexLabelKey) THEN Result(p, NoError)
    ELSE LET groupIndex == GetOrdinal(p.name)
         IN IF groupIndex = -1 THEN Result(p, ErrOrdinal)
            ELSE Result([p EXCEPT !.labels =
                           Put(p.labels, GroupIndexLabelKey, Sprint(groupIndex))],
                        NoError)

\* variant: the key is computed whether or not the label is there
AssignGroupKey_Always(p) ==
    [p EXCEPT !.labels =
       Put(p.labels, GroupUniqueHashLabelKey, genGroupUniqueKey(p.namespace, p.name))]

\* lines 107-115: the group unique key label of a leader
AssignGroupKey(p) ==
    IF Has(p.labels, GroupUniqueHashLabelKey) THEN p
    ELSE [p EXCEPT !.labels =
            Put(p.labels, GroupUniqueHashLabelKey,
                genGroupUniqueKey(p.namespace, p.name))]

\* lines 116-119: exclusive placement of a leader
ApplyExclusive(p) ==
    IF Has(p.annotations, ExclusiveKeyAnnotationKey) /\ ~exclusiveAffinityApplied(p)
    THEN SetExclusiveAffinities(p, Get(p.labels, GroupUniqueHashLabelKey))
    ELSE p

\* variant: the placement is applied before the key label is set
LeaderStep_KeyAfter(p) ==
    LET r == AssignGroupIndex(p)
    IN IF r.err # NoError THEN r
       ELSE Result(AssignGroupKey(ApplyExclusive(r.pod)), NoError)

LeaderStep(p) ==
    LET r == AssignGroupIndex(p)
    IN IF r.err # NoError THEN r
       ELSE Result(ApplyExclusive(AssignGroupKey(r.pod)), NoError)

\* variant: a worker is given the leader's key label as well
WorkerStep_AlsoKey(p) ==
    LET workerIndex == GetOrdinal(p.name)
    IN IF workerIndex = -1 THEN Result(p, ErrOrdinal)
       ELSE Result(AssignGroupKey([p EXCEPT !.labels =
                      Put(p.labels, WorkerIndexLabelKey, Sprint(workerIndex))]),
                   NoError)

\* lines 120-126
WorkerStep(p) ==
    LET workerIndex == GetOrdinal(p.name)
    IN IF workerIndex = -1 THEN Result(p, ErrOrdinal)
       ELSE Result([p EXCEPT !.labels =
                      Put(p.labels, WorkerIndexLabelKey, Sprint(workerIndex))],
                   NoError)

\* variant: a missing size annotation is defaulted to one
AcceleratorStep_DefaultSize(p) ==
    IF ~PodRequestsTPUs(p) THEN Result(p, NoError)
    ELSE IF ~Has(p.annotations, SizeAnnotationKey)
         THEN Result(AddTPUVariables(
                       [p EXCEPT !.annotations = Put(p.annotations, SizeAnnotationKey, <<"1">>)],
                       1), NoError)
    ELSE LET a == Atoi(p.annotations[SizeAnnotationKey])
         IN IF ~a.ok THEN Result(p, ErrAtoi)
            ELSE Result(AddTPUVariables(p, a.n), NoError)

\* lines 128-142
AcceleratorStep(p) ==
    IF ~PodRequestsTPUs(p) THEN Result(p, NoError)
    ELSE IF ~Has(p.annotations, SizeAnnotationKey) THEN Result(p, ErrSizeMissing)
    ELSE LET a == Atoi(p.annotations[SizeAnnotationKey])
         IN IF ~a.ok THEN Result(p, ErrAtoi)
            ELSE Result(AddTPUVariables(p, a.n), NoError)

\* variant: the membership gate is missing
DefaultPod_NoGate(p) ==
    LET r == IF LeaderPod(p) THEN LeaderStep(p) ELSE WorkerStep(p)
    IN IF r.err # NoError THEN r ELSE AcceleratorStep(r.pod)

\* PodWebhook.Default: the object after the call and the error returned
DefaultPod(p) ==
    IF ~Has(p.labels, SetNameLabelKey) THEN Result(p, NoError)
    ELSE LET r == IF LeaderPod(p) THEN LeaderStep(p) ELSE WorkerStep(p)
         IN IF r.err # NoError THEN r ELSE AcceleratorStep(r.pod)

\* PodWebhook.validate: the error returned
validate(p) ==
    IF ~Has(p.labels, SetNameLabelKey) THEN NoError ELSE NoError

\* ------------------------------------------------------------ pods
NameChars == {"s", "-", "0", "1"}

\* pod names: they start with an alphanumeric character
Names ==
    UNION {{<<"s">> \o t : t \in [1..n -> NameChars]} : n \in 0..(MaxNameLen - 1)}

Roles == {"leader", "worker"}

TopologyKeys == {<<"zone">>, <<"rack">>}

PresetKey == <<"k">>

PresetIndex == <<"1">>

SizeValues == {<<"2">>, <<"x">>}

\* the values a label or an annotation may carry on entry
ValuesOf(k) ==
    IF k = SetNameLabelKey THEN {<<"s">>}
    ELSE IF k = GroupUniqueHashLabelKey THEN {PresetKey}
    ELSE IF k = SizeAnnotationKey THEN SizeValues
    ELSE IF k = ExclusiveKeyAnnotationKey THEN TopologyKeys
    ELSE {PresetIndex}

MapsOver(keys) ==
    UNION {{m \in [d -> UNION {ValuesOf(k) : k \in d}] : \A k \in d : m[k] \in ValuesOf(k)}
           : d \in SUBSET keys}

UserTerm ==
    [LabelSelector |-> <<Requirement("app", "In", {<<"web">>})>>,
     TopologyKey |-> <<"zone">>]

InitTerms ==
    {AffinityTerm(t, PresetKey) : t \in TopologyKeys}
    \cup {AntiAffinityTerm(t, PresetKey) : t \in TopologyKeys}
    \cup {UserTerm}

TermLists == UNION {[1..n -> InitTerms] : n \in 0..MaxTerms}

TermHolders == {Nil} \cup {[Required |-> l] : l \in TermLists}

Affinities ==
    {Nil} \cup {[PodAffinity |-> a, PodAntiAffinity |-> b] :
                  a \in TermHolders, b \in TermHolders}

\* pods whose names, labels, size annotation and accelerator requests vary
IdentityPods ==
    {[name |-> n, namespace |-> <<"n">>, role |-> r, labels |-> l,
      annotations |-> a, affinity |-> Nil, requestsTPU |-> t, env |-> {}] :
        n \in Names, r \in Roles,
        l \in {m \in MapsOver({SetNameLabelKey, GroupIndexLabelKey, WorkerIndexLabelKey,
                               GroupUniqueHashLabelKey}) :
                 \* a pod outside any set carries none or all of the other labels
                 Has(m, SetNameLabelKey) \/ Cardinality(DOMAIN m) \in {0, 3}},
        a \in {m \in MapsOver({SizeAnnotationKey, ExclusiveKeyAnnotationKey}) :
                 Get(m, ExclusiveKeyAnnotationKey) # <<"rack">>},
        t \in BOOLEAN}

PlacementPodNames == {<<"s", "-", "0">>, <<"s", "-", "1">>}

\* group members whose affinity section and exclusive-topology annotation vary
PlacementPods ==
    {[name |-> n, namespace |-> <<"n">>, role |-> r, labels |-> l,
      annotations |-> a, affinity |-> f, requestsTPU |-> FALSE, env |-> {}] :
        n \in PlacementPodNames, r \in Roles,
        l \in {m \in MapsOver({SetNameLabelKey, GroupUniqueHashLabelKey}) :
                 Has(m, SetNameLabelKey)},
        a \in MapsOver({ExclusiveKeyAnnotationKey}),
        f \in Affinities}

\* ------------------------------------------------------------ the machine
InitWith(pods) ==
    /\ pod \in pods
    /\ before = pod
    /\ submitted = pod
    /\ err = NoError
    /\ calls = 0
    /\ verdict = "none"

\* the mutating endpoint is called on the object; a reinvocation or a later
\* update of the admitted pod passes the object the previous call produced
Default ==
    /\ err = NoError
    /\ verdict = "none"
    /\ calls < MaxCalls
    /\ LET r == DefaultPod(pod)
       IN /\ pod' = r.pod
          /\ err' = r.err
    /\ before' = pod
    /\ calls' = calls + 1
    /\ UNCHANGED <<submitted, verdict>>

\* the validating endpoints run after the mutating one let the request pass
ValidateCreate ==
    /\ err = NoError
    /\ verdict = "none"
    /\ verdict' = validate(pod)
    /\ UNCHANGED <<pod, before, submitted, err, calls>>

ValidateUpdate ==
    /\ err = NoError
    /\ verdict = "none"
    /\ verdict' = NoError
    /\ UNCHANGED <<pod, before, submitted, err, calls>>

ValidateDelete ==
    /\ err = NoError
    /\ verdict = "none"
    /\ verdict' = NoError
    /\ UNCHANGED <<pod, before, submitted, err, calls>>

Next == Default \/ ValidateCreate \/ ValidateUpdate \/ ValidateDelete

InitIdentity == InitWith(IdentityPods)

InitPlacement == InitWith(PlacementPods)

SpecIdentity == InitIdentity /\ [][Next]_vars

SpecPlacement == InitPlacement /\ [][Next]_vars

\* ------------------------------------------------------------ properties
\* `before` is the object the latest Default call received, `pod` the object
\* it left, `submitted` the object of the first call.
Member(p) == Has(p.labels, SetNameLabelKey)

Exclusive(p) == Has(p.annotations, ExclusiveKeyAnnotationKey)

Called == calls >= 1

AffinityTerms(p) == IF p.affinity = Nil THEN << >> ELSE Required(p.affinity.PodAffinity)

AntiAffinityTerms(p) ==
    IF p.affinity = Nil THEN << >> ELSE Required(p.affinity.PodAntiAffinity)

ScopedCount(terms, topologyKey) ==
    Cardinality({i \in 1..Len(terms) : terms[i].TopologyKey = topologyKey})

\* both lists exist and each holds a term scoped to the pod's topology key
PairOnEntry(p) ==
    /\ p.affinity # Nil
    /\ p.affinity.PodAffinity # Nil
    /\ p.affinity.PodAntiAffinity # Nil
    /\ ScopedCount(AffinityTerms(p), p.annotations[ExclusiveKeyAnnotationKey]) >= 1
    /\ ScopedCount(AntiAffinityTerms(p), p.annotations[ExclusiveKeyAnnotationKey]) >= 1

SameLabel(p, q, k) == Has(p.labels, k) = Has(q.labels, k) /\ Get(p.labels, k) = Get(q.labels, k)

ExclusiveLeader(p) == Member(p) /\ LeaderPod(p) /\ Exclusive(p)

\* C1: a second Default on a leader pod that carries the exclusive-topology
\* annotation leaves the pod exactly as the first Default left it.
C1_SecondDefaultIsNoOp ==
    (calls >= 2 /\ ExclusiveLeader(before)) => pod = before

C1_Witness ==
    /\ calls = 2
    /\ ExclusiveLeader(submitted)
    /\ ~PairOnEntry(submitted)
    /\ PairOnEntry(pod)
    /\ pod = before

\* C2 (as stated): after any Default on an exclusive leader each required
\* list holds at most one term scoped to the topology key, whatever terms the
\* pod was submitted with.
C2_AtMostOneScopedTerm ==
    (Called /\ ExclusiveLeader(submitted)) =>
        LET topo == submitted.annotations[ExclusiveKeyAnnotationKey]
        IN /\ ScopedCount(AffinityTerms(pod), topo) <= 1
           /\ ScopedCount(AntiAffinityTerms(pod), topo) <= 1

\* C2 (amended): over any number of Default calls each required list gains at
\* most one term scoped to the topology key beyond those the pod was
\* submitted with, and a pod submitted with none ends with at most one.
C2_AtMostOneScopedTermAdded ==
    (Called /\ ExclusiveLeader(submitted)) =>
        LET topo == submitted.annotations[ExclusiveKeyAnnotationKey]
        IN /\ ScopedCount(AffinityTerms(pod), topo)
                <= ScopedCount(AffinityTerms(submitted), topo) + 1
           /\ ScopedCount(AntiAffinityTerms(pod), topo)
                <= ScopedCount(AntiAffinityTerms(submitted), topo) + 1
           /\ Len(AffinityTerms(pod)) <= Len(AffinityTerms(submitted)) + 1
           /\ Len(AntiAffinityTerms(pod)) <= Len(AntiAffinityTerms(submitted)) + 1

C2_Witness ==
    /\ calls >= 2
    /\ ExclusiveLeader(submitted)
    /\ LET topo == submitted.annotations[ExclusiveKeyAnnotationKey]
       IN /\ ScopedCount(AffinityTerms(submitted), topo) = 1
          /\ ScopedCount(AffinityTerms(pod), topo) = 2
          /\ ScopedCount(AntiAffinityTerms(submitted), topo) = 0
          /\ ScopedCount(AntiAffinityTerms(pod), topo) = 1

\* C3 (as stated): every group member whose name has no ordinal is rejected by
\* Default, whatever labels it carries.
C3_UnparsableNameRejected ==
    (Called /\ Member(before) /\ GetOrdinal(before.name) = -1) =>
        /\ err # NoError
        /\ SameLabel(pod, before, GroupIndexLabelKey)
        /\ SameLabel(pod, before, WorkerIndexLabelKey)

\* C3 (amended): a worker, and a leader without the group-index label, whose
\* name has no ordinal is rejected with the ordinal error and left untouched;
\* a leader that already carries the group-index label is not rejected for
\* its name.
C3_UnparsableNameRejectedUnlessIndexed ==
    (Called /\ Member(before) /\ GetOrdinal(before.name) = -1) =>
        IF LeaderPod(before) /\ Has(before.labels, GroupIndexLabelKey)
        THEN /\ err # ErrOrdinal
             /\ SameLabel(pod, before, GroupIndexLabelKey)
        ELSE /\ err = ErrOrdinal
             /\ pod = before

C3_Witness ==
    /\ Called
    /\ Member(before)
    /\ GetOrdinal(before.name) = -1
    /\ LastDash(before.name) > 0
    /\ ~LeaderPod(before)
    /\ Has(before.labels, WorkerIndexLabelKey)
    /\ err = ErrOrdinal

IdentityLabels == {GroupIndexLabelKey, WorkerIndexLabelKey, GroupUniqueHashLabelKey}

\* C4 (as stated): Default never overwrites an identity label that is already
\* present on a group member.
C4_IdentityLabelsNeverOverwritten ==
    (Called /\ Member(before)) =>
        \A k \in IdentityLabels :
            Has(before.labels, k) => Get(pod.labels, k) = before.labels[k]

\* C4 (amended): the group-index and group-unique-key labels are never
\* overwritten when present; the worker-index label is untouched on a leader
\* and on a pod whose name has no ordinal, and on a worker with an ordinal it
\* is set to that ordinal, replacing any other value.
C4_LeaderLabelsKeptWorkerIndexFromName ==
    (Called /\ Member(before)) =>
        /\ \A k \in {GroupIndexLabelKey, GroupUniqueHashLabelKey} :
              Has(before.labels, k) => Get(pod.labels, k) = before.labels[k]
        /\ IF LeaderPod(before) \/ GetOrdinal(before.name) = -1
           THEN SameLabel(pod, before, WorkerIndexLabelKey)
           ELSE Get(pod.labels, WorkerIndexLabelKey) = Sprint(ParseDigits(
                    SubSeq(before.name, LastDash(before.name) + 1, Len(before.name))))

C4_Witness ==
    /\ Called
    /\ Member(before)
    /\ ~LeaderPod(before)
    /\ IdentityLabels \subseteq DOMAIN before.labels
    /\ before.name = <<"s", "-", "0", "0">>
    /\ err = NoError
    /\ pod.labels[WorkerIndexLabelKey] = <<"0">>
    /\ before.labels[WorkerIndexLabelKey] = PresetIndex
    /\ pod.labels[GroupIndexLabelKey] = before.labels[GroupIndexLabelKey]
    /\ pod.labels[GroupUniqueHashLabelKey] = before.labels[GroupUniqueHashLabelKey]

\* C5: Default leaves a pod without the set-name label unchanged and returns
\* no error, and validate admits it, whatever its name, role and requests.
C5_NonMemberPassesThrough ==
    /\ (Called /\ ~Member(before)) => (pod = before /\ err = NoError)
    /\ (~Member(pod) /\ verdict # "none") => verdict = NoError

C5_Witness ==
    /\ Called
    /\ ~Member(submitted)
    /\ GetOrdinal(submitted.name) = -1
    /\ PodRequestsTPUs(submitted)
    /\ ~Has(submitted.annotations, SizeAnnotationKey)
    /\ Exclusive(submitted)
    /\ pod = submitted
    /\ verdict = NoError

\* C6: a group member that requests the accelerator and has no group-size
\* annotation is rejected by Default, with its annotations and environment
\* as they were; a member that does not request the accelerator is never
\* rejected for the missing annotation and gets no variables.
C6_MissingSizeRejectedOnlyForAccelerator ==
    (Called /\ Member(before)) =>
        /\ (PodRequestsTPUs(before) /\ ~Has(before.annotations, SizeAnnotationKey)) =>
              /\ err # NoError
              /\ pod.annotations = before.annotations
              /\ pod.env = before.env
        /\ ~PodRequestsTPUs(before) =>
              /\ err \notin {ErrSizeMissing, ErrAtoi}
              /\ pod.env = before.env

C6_Witness ==
    /\ Called
    /\ Member(before)
    /\ LeaderPod(before)
    /\ before.name = <<"s", "-", "0">>
    /\ PodRequestsTPUs(before)
    /\ ~Has(before.annotations, SizeAnnotationKey)
    /\ err = ErrSizeMissing

\* metav1.LabelSelector matching: every requirement must hold of the labels
Holds(req, labels) ==
    IF req.Operator = "In" THEN Has(labels, req.Key) /\ labels[req.Key] \in req.Values
    ELSE IF req.Operator = "NotIn"
         THEN ~Has(labels, req.Key) \/ labels[req.Key] \notin req.Values
    ELSE IF req.Operator = "Exists" THEN Has(labels, req.Key)
    ELSE ~Has(labels, req.Key)

Matches(selector, labels) == \A i \in 1..Len(selector) : Holds(selector[i], labels)

GroupKeys ==
    {PresetKey} \cup {Sha1Hash(<<"n", "/">> \o n) : n \in PlacementPodNames}

\* the labels of the other pods of the cluster
OtherPodLabels ==
    UNION {[d -> GroupKeys \cup {<<"web">>}] : d \in SUBSET {GroupUniqueHashLabelKey, "app"}}

\* Default has just installed the pair on this leader
Installed ==
    /\ Called
    /\ ExclusiveLeader(before)
    /\ ~PairOnEntry(before)
    /\ err = NoError

Last(seq) == seq[Len(seq)]

\* C7: the anti-affinity term installed for key A matches exactly the pods
\* that carry the group-unique-key label with a value other than A (so never
\* a pod labeled A, always a pod labeled B # A, never an unlabeled pod), and
\* the affinity term installed for A matches exactly the pods labeled A.
C7_InstalledSelectorsSeparateGroups ==
    Installed =>
        LET A == pod.labels[GroupUniqueHashLabelKey]
            affinity == Last(AffinityTerms(pod)).LabelSelector
            anti == Last(AntiAffinityTerms(pod)).LabelSelector
        IN \A other \in OtherPodLabels :
              /\ Matches(anti, other)
                    <=> (Has(other, GroupUniqueHashLabelKey)
                         /\ other[GroupUniqueHashLabelKey] # A)
              /\ Matches(affinity, other)
                    <=> (Has(other, GroupUniqueHashLabelKey)
                         /\ other[GroupUniqueHashLabelKey] = A)

C7_Witness ==
    /\ Installed
    /\ pod.labels[GroupUniqueHashLabelKey] # PresetKey
    /\ Len(AntiAffinityTerms(pod)) = Len(AntiAffinityTerms(before)) + 1
    /\ \E other \in OtherPodLabels :
          /\ Get(other, GroupUniqueHashLabelKey) = PresetKey
          /\ Matches(Last(AntiAffinityTerms(pod)).LabelSelector, other)
          /\ ~Matches(Last(AffinityTerms(pod)).LabelSelector, other)

\* C8: on a leader Default computes the group unique key from the namespace
\* and the pod name only when the label is absent, and from the first
\* call on the label keeps its value.
C8_GroupKeyStable ==
    (Called /\ Member(before) /\ LeaderPod(before)) =>
        /\ Has(before.labels, GroupUniqueHashLabelKey) =>
              Get(pod.labels, GroupUniqueHashLabelKey) = before.labels[GroupUniqueHashLabelKey]
        /\ (~Has(before.labels, GroupUniqueHashLabelKey)
              /\ Has(pod.labels, GroupUniqueHashLabelKey)) =>
              pod.labels[GroupUniqueHashLabelKey]
                 = Sha1Hash(before.namespace \o <<"/">> \o before.name)
        /\ (err = NoError \/ calls >= 2) => Has(pod.labels, GroupUniqueHashLabelKey)
        /\ calls >= 2 => SameLabel(pod, before, GroupUniqueHashLabelKey)

C8_Witness ==
    /\ calls >= 2
    /\ Member(submitted)
    /\ LeaderPod(submitted)
    /\ ~Has(submitted.labels, GroupUniqueHashLabelKey)
    /\ Get(pod.labels, GroupUniqueHashLabelKey)
          = Sha1Hash(submitted.namespace \o <<"/">> \o submitted.name)

HasOwnTerm(terms, topologyKey, selector) ==
    \E i \in 1..Len(terms) :
        terms[i].TopologyKey = topologyKey /\ terms[i].LabelSelector = selector

OwnPair(p) ==
    LET key == Get(p.labels, GroupUniqueHashLabelKey)
        topo == p.annotations[ExclusiveKeyAnnotationKey]
    IN /\ HasOwnTerm(AffinityTerms(p), topo,
                     <<Requirement(GroupUniqueHashLabelKey, "In", {key})>>)
       /\ HasOwnTerm(AntiAffinityTerms(p), topo,
                     <<Requirement(GroupUniqueHashLabelKey, "Exists", {}),
                       Requirement(GroupUniqueHashLabelKey, "NotIn", {key})>>)

C10_RolesKeptApart ==
    (Called /\ Member(before)) =>
        IF LeaderPod(before)
        THEN SameLabel(pod, before, WorkerIndexLabelKey)
        ELSE /\ SameLabel(pod, before, GroupIndexLabelKey)
             /\ SameLabel(pod, before, GroupUniqueHashLabelKey)
             /\ pod.affinity = before.affinity

C10_Witness ==
    /\ Called
    /\ Member(before)
    /\ ~LeaderPod(before)
    /\ Exclusive(before)
    /\ err = NoError
    /\ ~Has(pod.labels, GroupIndexLabelKey)
    /\ ~Has(pod.labels, GroupUniqueHashLabelKey)
    /\ Has(pod.labels, WorkerIndexLabelKey)
    /\ pod.affinity = Nil

====
